---- MODULE Spec2Model ----
\* Job lifecycle and queue orchestration of the stem-separation backend:
\* the Job record (models/job.py), the Redis-backed QueueService
\* (services/queue_service.py), the pipeline orchestrator
\* (services/audio_processing.py) and the Worker loop (worker.py).
EXTENDS Integers, Sequences, FiniteSets, TLC

\* ------------------------------------------------------------------ bounds
MaxJobs == 2
MaxTime == 1
MaxFaults == 1
MaxReports == 2
MaxCalls == 3
\* the interpreter's recursion limit (sys.getrecursionlimit(), 1000 frames by
\* default), scaled to the queue lengths of the model: one get_next_job call
\* can skip RecursionLimit - 1 ids before the next nested call raises
RecursionLimit == 2

\* ------------------------------------------------------------ input domains
Workers == {"w1", "w2"}
API == "api"
Ids == 1..MaxJobs
\* ids a client may ask for: every id uuid4 can hand out (known or not yet created)
InputTypeArgs == {"file_upload", "youtube_url"}
\* percentages the engine's stdout can carry (int(...) of the token before "%")
RawReports == {20, 60, 130}
RawRange == 0..100
\* progress arguments a direct caller of update_job_progress passes
ProgressArgs == {-10, 50, 150}
Durations == {42}
DurationArgs == {0, 42}
ErrorArgs == {"disk full"}
RetentionDays == {0, 1}

\* ------------------------------------------------------------ Optional[...]
None == <<>>
Some(x) == <<x>>
IsSet(o) == o # <<>>
Val(o) == o[1]

\* ------------------------------------------------------------- models/job.py
JobStatus == {"PENDING", "PROCESSING", "COMPLETED", "FAILED"}
InputType == {"FILE_UPLOAD", "YOUTUBE_URL"}

\* the value of an enum member (JobStatus, InputType, AudioFormat: all str enums)
EnumValue(member) ==
  CASE member = "PENDING" -> "pending"
    [] member = "PROCESSING" -> "processing"
    [] member = "COMPLETED" -> "completed"
    [] member = "FAILED" -> "failed"
    [] member = "FILE_UPLOAD" -> "file_upload"
    [] member = "YOUTUBE_URL" -> "youtube_url"
    [] member = "WAV" -> "wav"
    [] member = "MP3" -> "mp3"
    [] member = "FLAC" -> "flac"
    [] OTHER -> "invalid"

\* enum lookup by value, as pydantic does when validating a field; None when no member has it
EnumByValue(enum, value) ==
  IF \E m \in enum : EnumValue(m) = value
  THEN Some(CHOOSE m \in enum : EnumValue(m) = value)
  ELSE None

AudioFormat == {"WAV", "MP3", "FLAC"}

\* StemSeparationOptions().model_dump(): the default options the producers pass
DefaultOptions == [output_format |-> "WAV", normalize |-> TRUE]

\* Job(id=..., status=PENDING, input_type=..., ...): field defaults of the model,
\* input_type given by value and coerced to the enum; t is datetime.utcnow()
Job(id, input_type, input_source, model, options, estimated_duration, t) ==
  [id |-> id,
   status |-> "PENDING",
   created_at |-> t,
   updated_at |-> t,
   input_type |-> Val(EnumByValue(InputType, input_type)),
   input_source |-> input_source,
   model |-> model,
   options |-> options,
   progress |-> 0,
   result |-> None,
   error |-> None,
   estimated_duration |-> estimated_duration,
   actual_duration |-> None]

\* the field constraints pydantic enforces at construction
JobArgsValid(input_type, estimated_duration) ==
  /\ IsSet(EnumByValue(InputType, input_type))
  /\ estimated_duration >= 0

\* JobResult(job_id=..., processing_time=..., file_size=...)
JobResult(job_id, processing_time, file_size) ==
  [job_id |-> job_id, processing_time |-> processing_time, file_size |-> file_size]

\* Job.update_status(status, error=None)
update_status(job, status, error, t) ==
  [job EXCEPT !.status = status,
              !.updated_at = t,
              !.error = IF IsSet(error) /\ Val(error) # "" THEN error ELSE @]

Max(a, b) == IF a >= b THEN a ELSE b
Min(a, b) == IF a <= b THEN a ELSE b

\* Job.update_progress(progress)
update_progress_unclamped(job, progress, t) ==
  [job EXCEPT !.progress = progress, !.updated_at = t]

update_progress(job, progress, t) ==
  [job EXCEPT !.progress = Max(0, Min(100, progress)), !.updated_at = t]

\* Job.mark_completed(result, actual_duration)
mark_completed_keeps_progress(job, result, actual_duration, t) ==
  [job EXCEPT !.status = "COMPLETED",
              !.result = Some(result),
              !.actual_duration = Some(actual_duration),
              !.updated_at = t]

mark_completed_rewrites_estimate(job, result, actual_duration, t) ==
  [job EXCEPT !.status = "COMPLETED",
              !.result = Some(result),
              !.actual_duration = Some(actual_duration),
              !.estimated_duration = actual_duration,
              !.progress = 100,
              !.updated_at = t]

mark_completed(job, result, actual_duration, t) ==
  [job EXCEPT !.status = "COMPLETED",
              !.result = Some(result),
              !.actual_duration = Some(actual_duration),
              !.progress = 100,
              !.updated_at = t]

\* Job.mark_failed(error)
mark_failed_resets_progress(job, error, t) ==
  [job EXCEPT !.status = "FAILED", !.error = Some(error), !.progress = 0, !.updated_at = t]

mark_failed_no_error(job, error, t) ==
  [job EXCEPT !.status = "FAILED", !.updated_at = t]

mark_failed(job, error, t) ==
  [job EXCEPT !.status = "FAILED", !.error = Some(error), !.updated_at = t]

\* ------------------------------------------------- JSON form of a Job record
\* datetime -> ISO-8601 string and back
IsoFormat(t) == <<"iso", t>>
FromIso(s) == s[2]

DumpOptions(o) == [output_format |-> EnumValue(o.output_format), normalize |-> o.normalize]
ParseOptions(o) ==
  [output_format |-> Val(EnumByValue(AudioFormat, o.output_format)), normalize |-> o.normalize]

\* job.model_dump_json(): enums by value, datetimes as ISO strings, None as null
model_dump_json(job) ==
  [id |-> job.id,
   status |-> EnumValue(job.status),
   created_at |-> IsoFormat(job.created_at),
   updated_at |-> IsoFormat(job.updated_at),
   input_type |-> EnumValue(job.input_type),
   input_source |-> job.input_source,
   model |-> job.model,
   options |-> DumpOptions(job.options),
   progress |-> job.progress,
   result |-> job.result,
   error |-> job.error,
   estimated_duration |-> job.estimated_duration,
   actual_duration |-> job.actual_duration]

\* whether Job(**json.loads(data)) passes pydantic validation
JsonValid(d) ==
  /\ IsSet(EnumByValue(JobStatus, d.status))
  /\ IsSet(EnumByValue(InputType, d.input_type))
  /\ IsSet(EnumByValue(AudioFormat, d.options.output_format))
  /\ d.progress >= 0 /\ d.progress <= 100
  /\ d.estimated_duration >= 0
  /\ (IsSet(d.actual_duration) => Val(d.actual_duration) >= 0)
  /\ (IsSet(d.result) => Val(d.result).processing_time >= 0 /\ Val(d.result).file_size >= 0)

\* Job(**json.loads(data)) on a valid document
ParseJob_default_estimate(d) ==
  [id |-> d.id,
   status |-> Val(EnumByValue(JobStatus, d.status)),
   created_at |-> FromIso(d.created_at),
   updated_at |-> FromIso(d.updated_at),
   input_type |-> Val(EnumByValue(InputType, d.input_type)),
   input_source |-> d.input_source,
   model |-> d.model,
   options |-> ParseOptions(d.options),
   progress |-> d.progress,
   result |-> d.result,
   error |-> d.error,
   estimated_duration |-> 0,
   actual_duration |-> d.actual_duration]

ParseJob(d) ==
  [id |-> d.id,
   status |-> Val(EnumByValue(JobStatus, d.status)),
   created_at |-> FromIso(d.created_at),
   updated_at |-> FromIso(d.updated_at),
   input_type |-> Val(EnumByValue(InputType, d.input_type)),
   input_source |-> d.input_source,
   model |-> d.model,
   options |-> ParseOptions(d.options),
   progress |-> d.progress,
   result |-> d.result,
   error |-> d.error,
   estimated_duration |-> d.estimated_duration,
   actual_duration |-> d.actual_duration]

\* ------------------------------------------------------- the Redis store
\* kv: the "job:<id>" string keys; job_queue: the FIFO list; active_jobs: the set
EmptyRedis == [kv |-> [i \in Ids |-> None], job_queue |-> <<>>, active_jobs |-> {}]

\* the Prometheus gauges jobs_queued and jobs_active (core/observability.py
\* Metrics), summed over the processes that export them
ZeroMetrics == [jobs_queued |-> 0, jobs_active |-> 0]

redis_set(r, job_id, data) == [r EXCEPT !.kv[job_id] = Some(data)]
redis_delete(r, job_id) == [r EXCEPT !.kv[job_id] = None]
redis_lpush(r, job_id) == [r EXCEPT !.job_queue = <<job_id>> \o @]
redis_rpush_twice(r, job_id) == [r EXCEPT !.job_queue = Append(Append(@, job_id), job_id)]
redis_rpush(r, job_id) == [r EXCEPT !.job_queue = Append(@, job_id)]
redis_lpop(r) == [r EXCEPT !.job_queue = Tail(@)]
redis_lrem(r, job_id) == [r EXCEPT !.job_queue = SelectSeq(@, LAMBDA x : x # job_id)]
redis_sadd(r, job_id) == [r EXCEPT !.active_jobs = @ \cup {job_id}]
redis_srem(r, job_id) == [r EXCEPT !.active_jobs = @ \ {job_id}]
\* scan_iter(match="job:*"): the ids that have a record key
redis_scan(r) == {i \in Ids : IsSet(r.kv[i])}

\* what a QueueService call leaves behind: the store, the caller's gauges,
\* the exception that escaped ("none" when it returned) and the return value
Out(r, m, raised, ret) == [redis |-> r, metrics |-> m, raised |-> raised, ret |-> ret]

\* ------------------------------------------- services/queue_service.py
\* In every method `fail` is the ordinal of the Redis round-trip that raises
\* (0: none does).

\* QueueService._save_job
save_job_keeps_terminal(r, job) ==
  IF IsSet(r.kv[job.id]) /\ Val(r.kv[job.id]).status \in {"completed", "failed"}
  THEN r
  ELSE redis_set(r, job.id, model_dump_json(job))

save_job(r, job) == redis_set(r, job.id, model_dump_json(job))

\* QueueService.get_job; getFails: self.redis.get raises
get_job_none_when_missing(r, m, job_id, getFails) ==
  IF getFails THEN Out(r, m, "RedisError", None)
  ELSE IF ~IsSet(r.kv[job_id]) THEN Out(r, m, "none", None)
  ELSE IF ~JsonValid(Val(r.kv[job_id])) THEN Out(r, m, "JobQueueError", None)
  ELSE Out(r, m, "none", Some(ParseJob(Val(r.kv[job_id]))))

get_job(r, m, job_id, getFails) ==
  IF getFails THEN Out(r, m, "RedisError", None)
  ELSE IF ~IsSet(r.kv[job_id]) THEN Out(r, m, "JobNotFoundError", None)
  ELSE IF ~JsonValid(Val(r.kv[job_id])) THEN Out(r, m, "JobQueueError", None)
  ELSE Out(r, m, "none", Some(ParseJob(Val(r.kv[job_id]))))

\* QueueService.update_job; setFails: self.redis.set raises inside _save_job
update_job(r, m, job, setFails) ==
  IF setFails THEN Out(r, m, "JobQueueError", None)
  ELSE Out(save_job(r, job), m, "none", None)

\* QueueService.create_job; job_id is the fresh uuid4
create_job_lpush(r, m, job_id, input_type, input_source, model, options, estimated_duration, t, fail) ==
  IF ~JobArgsValid(input_type, estimated_duration) THEN Out(r, m, "JobQueueError", None)
  ELSE
    LET job == Job(job_id, input_type, input_source, model, options, estimated_duration, t) IN
    IF fail = 1 THEN Out(r, m, "JobQueueError", None)
    ELSE IF fail = 2 THEN Out(save_job(r, job), m, "JobQueueError", None)
    ELSE Out([save_job(r, job) EXCEPT !.job_queue = <<job_id>> \o @],
             [m EXCEPT !.jobs_queued = @ + 1], "none", Some(job))

create_job(r, m, job_id, input_type, input_source, model, options, estimated_duration, t, fail) ==
  IF ~JobArgsValid(input_type, estimated_duration) THEN Out(r, m, "JobQueueError", None)
  ELSE
    LET job == Job(job_id, input_type, input_source, model, options, estimated_duration, t) IN
    IF fail = 1 THEN Out(r, m, "JobQueueError", None)
    ELSE IF fail = 2 THEN Out(save_job(r, job), m, "JobQueueError", None)
    ELSE Out(redis_rpush(save_job(r, job), job_id),
             [m EXCEPT !.jobs_queued = @ + 1], "none", Some(job))

\* QueueService.update_job_progress
update_job_progress(r, m, job_id, progress, t, fail) ==
  LET g == get_job(r, m, job_id, fail = 1) IN
  IF g.raised # "none" THEN g
  ELSE update_job(r, m, update_progress(Val(g.ret), progress, t), fail = 2)

\* QueueService.mark_job_processing
mark_job_processing(r, m, job_id, t, fail) ==
  LET g == get_job(r, m, job_id, fail = 1) IN
  IF g.raised # "none" THEN g
  ELSE
    LET job == update_status(Val(g.ret), "PROCESSING", None, t)
        u == update_job(r, m, job, fail = 2)
    IN
    IF u.raised # "none" THEN u
    ELSE IF fail = 3 THEN Out(u.redis, m, "RedisError", None)
    ELSE Out(redis_sadd(u.redis, job_id),
             [m EXCEPT !.jobs_active = @ + 1, !.jobs_queued = @ - 1], "none", Some(job))

\* QueueService.mark_job_completed
mark_job_completed(r, m, job_id, result, actual_duration, t, fail) ==
  LET g == get_job(r, m, job_id, fail = 1) IN
  IF g.raised # "none" THEN g
  ELSE
    LET job == mark_completed(Val(g.ret), result, actual_duration, t)
        u == update_job(r, m, job, fail = 2)
    IN
    IF u.raised # "none" THEN u
    ELSE IF fail = 3 THEN Out(u.redis, m, "RedisError", None)
    ELSE Out(redis_srem(u.redis, job_id),
             [m EXCEPT !.jobs_active = @ - 1], "none", Some(job))

\* QueueService.mark_job_failed
mark_job_failed(r, m, job_id, error, t, fail) ==
  LET g == get_job(r, m, job_id, fail = 1) IN
  IF g.raised # "none" THEN g
  ELSE
    LET job == mark_failed(Val(g.ret), error, t)
        u == update_job(r, m, job, fail = 2)
    IN
    IF u.raised # "none" THEN u
    ELSE IF fail = 3 THEN Out(u.redis, m, "RedisError", None)
    ELSE Out(redis_srem(u.redis, job_id),
             [m EXCEPT !.jobs_active = @ - 1], "none", Some(job))

\* QueueService.get_next_job: lpop, load, and on a missing record call itself
\* for the next head. Every skipped id adds one interpreter frame, and the call
\* that would exceed the interpreter's recursion limit raises RecursionError.
get_next_job_no_retry(r, m, fail, depth) ==
  IF fail = 1 THEN Out(r, m, "RedisError", None)
  ELSE IF r.job_queue = <<>> THEN Out(r, m, "none", None)
  ELSE
    LET job_id == Head(r.job_queue)
        r1 == redis_lpop(r)
        g == get_job(r1, m, job_id, fail = 2)
    IN
    IF g.raised = "JobNotFoundError" THEN Out(r1, m, "none", None)
    ELSE g

RECURSIVE get_next_job_at(_, _, _, _)
get_next_job_at(r, m, fail, depth) ==
  IF depth > RecursionLimit THEN Out(r, m, "RecursionError", None)
  ELSE IF fail = 1 THEN Out(r, m, "RedisError", None)
  ELSE IF r.job_queue = <<>> THEN Out(r, m, "none", None)
  ELSE
    LET job_id == Head(r.job_queue)
        r1 == redis_lpop(r)
        g == get_job(r1, m, job_id, fail = 2)
    IN
    IF g.raised = "JobNotFoundError"
      THEN get_next_job_at(r1, m, IF fail > 2 THEN fail - 2 ELSE 0, depth + 1)
      ELSE g

get_next_job(r, m, fail) == get_next_job_at(r, m, fail, 1)

\* QueueService._get_total_jobs_count
get_total_jobs_count(r) == Cardinality(redis_scan(r))

\* QueueService.get_queue_status
get_queue_status_from_gauges(r, m, fail) ==
  IF fail # 0 THEN Out(r, m, "RedisError", None)
  ELSE Out(r, m, "none",
           Some([queued_jobs |-> m.jobs_queued,
                 active_jobs |-> m.jobs_active,
                 total_jobs |-> get_total_jobs_count(r)]))

get_queue_status(r, m, fail) ==
  IF fail # 0 THEN Out(r, m, "RedisError", None)
  ELSE Out(r, m, "none",
           Some([queued_jobs |-> Len(r.job_queue),
                 active_jobs |-> Cardinality(r.active_jobs),
                 total_jobs |-> get_total_jobs_count(r)]))

\* QueueService.delete_job: exists, delete, lrem, srem
delete_job_keeps_queue_entry(r, m, job_id, fail) ==
  IF fail = 1 THEN Out(r, m, "RedisError", None)
  ELSE IF ~IsSet(r.kv[job_id]) THEN Out(r, m, "JobNotFoundError", None)
  ELSE IF fail = 2 THEN Out(r, m, "RedisError", None)
  ELSE IF fail = 3 THEN Out(redis_delete(r, job_id), m, "RedisError", None)
  ELSE IF fail = 4 THEN Out(redis_delete(r, job_id), m, "RedisError", None)
  ELSE Out(redis_srem(redis_delete(r, job_id), job_id), m, "none", None)

delete_job(r, m, job_id, fail) ==
  IF fail = 1 THEN Out(r, m, "RedisError", None)
  ELSE IF ~IsSet(r.kv[job_id]) THEN Out(r, m, "JobNotFoundError", None)
  ELSE IF fail = 2 THEN Out(r, m, "RedisError", None)
  ELSE IF fail = 3 THEN Out(redis_delete(r, job_id), m, "RedisError", None)
  ELSE IF fail = 4 THEN Out(redis_lrem(redis_delete(r, job_id), job_id), m, "RedisError", None)
  ELSE Out(redis_srem(redis_lrem(redis_delete(r, job_id), job_id), job_id), m, "none", None)

\* QueueService.cleanup_old_jobs over the keys still to visit; acc counts the deletions.
\* The loop body reads created_at from the raw document and calls delete_job.
RECURSIVE cleanup_scan(_, _, _, _, _)
cleanup_scan(r, m, keys, cutoff_time, acc) ==
  IF keys = {} THEN Out(r, m, "none", Some(acc))
  ELSE
    LET key == CHOOSE k \in keys : \A o \in keys : k <= o
        rest == keys \ {key}
    IN
    IF ~IsSet(r.kv[key]) THEN cleanup_scan(r, m, rest, cutoff_time, acc)
    ELSE IF FromIso(Val(r.kv[key]).created_at) < cutoff_time
      THEN cleanup_scan(delete_job(r, m, Val(r.kv[key]).id, 0).redis, m, rest, cutoff_time, acc + 1)
      ELSE cleanup_scan(r, m, rest, cutoff_time, acc)

\* QueueService.cleanup_old_jobs(days); t is datetime.utcnow(), in days
cleanup_old_jobs_retention_ignored(r, m, days, t, fail) ==
  IF fail # 0 THEN Out(r, m, "RedisError", None)
  ELSE cleanup_scan(r, m, redis_scan(r), t, 0)

cleanup_old_jobs(r, m, days, t, fail) ==
  IF fail # 0 THEN Out(r, m, "RedisError", None)
  ELSE cleanup_scan(r, m, redis_scan(r), t - days, 0)

\* QueueService.health_check
health_check_raises(r, m, fail) ==
  IF fail # 0 THEN Out(r, m, "RedisError", None) ELSE Out(r, m, "none", Some(TRUE))

health_check(r, m, fail) ==
  IF fail # 0 THEN Out(r, m, "none", Some(FALSE)) ELSE Out(r, m, "none", Some(TRUE))

\* ------------------------------------------- services/audio_processing.py
\* int(x * 0.5) for an integer x: Python's int() truncates toward zero
IntHalf(x) == IF x >= 0 THEN x \div 2 ELSE -((-x) \div 2)

\* process_job.progress_callback: the job progress written for an engine report
progress_callback_unscaled(progress) == 40 + progress

progress_callback(progress) == 40 + IntHalf(progress)

\* sum of the four stem sizes (one unit each)
TotalSize == 4

\* str(e) of the exception that reaches process_job's except block
ErrorMessage(raised) ==
  CASE raised = "JobNotFoundError" -> "Job not found"
    [] raised = "JobQueueError" -> "Failed to update job"
    [] raised = "RedisError" -> "Connection error"
    [] raised = "YouTubeDownloadError" -> "Download failed"
    [] raised = "ValidationError" -> "Invalid audio file"
    [] raised = "StemSeparationError" -> "Stem separation failed"
    [] OTHER -> "error"

\* files on disk: the upload behind a job's input_source, the file the
\* downloader leaves for a job, and the job's output directory
UploadPath(input_source) == <<"upload", input_source>>
DownloadPath(job_id) == <<"download", job_id>>
OutputDir(job_id) == <<"output", job_id>>

\* ------------------------------------------------------------------ state
VARIABLES
  redis,      \* the shared store: kv, job_queue, active_jobs
  metrics,    \* the gauges jobs_queued and jobs_active
  nextId,     \* how many uuid4 ids have been generated
  now,        \* datetime.utcnow(), in days
  faults,     \* Redis round-trips that have raised so far
  wk,         \* wk[w]: the Worker process w and its process_job frame
  files,      \* downloaded inputs and output directories on disk
  lastOp,     \* the producer side's last QueueService call and its outcome, while
              \* no worker has called the service since; justCreated is the id
              \* returned by the call before it when that was a create_job
  dispatched, \* ids returned by get_next_job, in order of return
  calls,      \* direct calls of the mutating service methods made so far
  inflight,   \* inflight[c]: the QueueService call that caller c is inside, with
              \* the Job it holds in memory between two Redis round-trips
  deleted     \* ids for which a delete_job call has returned

vars == <<redis, metrics, nextId, now, faults, wk, files, lastOp, dispatched, calls,
          inflight, deleted>>

\* callers that are inside the QueueService at the same time: a worker in
\* process_job and a request handler of the API, or two request handlers
Callers == {"c1", "c2"}

\* a caller that is not inside a call
NoCall == [pc |-> "idle", op |-> "none", id |-> 0, job |-> None]

NoOp ==
  [op |-> "none", id |-> 0, arg |-> None, raised |-> "none", ret |-> None, justCreated |-> 0]

\* a Worker at the head of its loop (Worker.__init__, then start() up to `while`),
\* with the locals of process_job as they are before its try block
NewWorker ==
  [pc |-> "loop", running |-> TRUE, job |-> None, exc |-> None,
   temp_dir |-> FALSE, audio_path |-> None, reports |-> 0,
   raw |-> None, cleanup |-> "none"]

Init ==
  /\ redis = EmptyRedis
  /\ metrics = ZeroMetrics
  /\ nextId = 0
  /\ now = 0
  /\ faults = 0
  /\ wk = [w \in Workers |-> NewWorker]
  /\ files = {}
  /\ lastOp = NoOp
  /\ dispatched = <<>>
  /\ calls = 0
  /\ inflight = [c \in Callers |-> NoCall]
  /\ deleted = {}

\* the round-trip of a call with n round-trips that raises, within the fault budget
FailChoices(n) == {0} \cup (IF faults < MaxFaults THEN 1..n ELSE {})

\* process p made the QueueService call op(id, arg) with outcome o
Call(p, op, id, arg, fail, o) ==
  /\ redis' = o.redis
  /\ metrics' = o.metrics
  /\ faults' = IF fail # 0 THEN faults + 1 ELSE faults
  /\ lastOp' = IF p = API
                THEN [op |-> op, id |-> id, arg |-> arg, raised |-> o.raised, ret |-> o.ret,
                      justCreated |-> IF lastOp.op = "create_job" /\ lastOp.raised = "none"
                                      THEN lastOp.id ELSE 0]
                ELSE NoOp

\* the clock advances
Tick ==
  /\ now < MaxTime
  /\ now' = now + 1
  /\ UNCHANGED <<redis, metrics, nextId, faults, wk, files, lastOp, dispatched, calls, inflight, deleted>>

InputSource(input_type) ==
  IF input_type = "file_upload" THEN "/tmp/uploads/audio.mp3" ELSE "https://youtu.be/x"

EstimatedDuration == 120

\* ---------------------------------------------- producer side (api/routes.py)
\* POST /stemify: an upload is written to disk first; then
\* create_job_from_file / create_job_from_youtube -> create_job
ApiCreateJob ==
  /\ nextId < MaxJobs
  /\ \E input_type \in InputTypeArgs, fail \in FailChoices(2) :
       /\ nextId' = nextId + 1
       /\ files' = IF input_type = "file_upload"
                    THEN files \cup {UploadPath(InputSource(input_type))} ELSE files
       /\ Call(API, "create_job", nextId + 1, Some(input_type), fail,
               create_job(redis, metrics, nextId + 1, input_type,
                          InputSource(input_type), "htdemucs", DefaultOptions,
                          EstimatedDuration, now, fail))
  /\ UNCHANGED <<now, wk, dispatched, calls, inflight, deleted>>

\* GET /jobs/{job_id}: get_job
ApiGetJob ==
  \E job_id \in Ids, fail \in FailChoices(1) :
    /\ Call(API, "get_job", job_id, None, fail,
            get_job(redis, metrics, job_id, fail = 1))
    /\ UNCHANGED <<nextId, now, wk, files, dispatched, calls, inflight, deleted>>

\* DELETE /jobs/{job_id}: delete_job
ApiDeleteJob ==
  \E job_id \in Ids, fail \in FailChoices(4) :
    /\ Call(API, "delete_job", job_id, None, fail,
            delete_job(redis, metrics, job_id, fail))
    /\ UNCHANGED <<nextId, now, wk, files, dispatched, calls, inflight, deleted>>

\* DELETE /jobs/{job_id} whose connection drops right after redis.delete: the
\* record is gone, lrem and srem never run
ApiDeleteJobCut ==
  \E job_id \in Ids :
    /\ IsSet(redis.kv[job_id])
    /\ Call(API, "delete_job", job_id, None, 3, delete_job(redis, metrics, job_id, 3))
    /\ UNCHANGED <<nextId, now, wk, files, dispatched, calls, inflight, deleted>>

\* GET /health, first call: health_check
ApiHealthCheck ==
  \E fail \in FailChoices(1) :
    /\ Call(API, "health_check", 0, None, fail, health_check(redis, metrics, fail))
    /\ UNCHANGED <<nextId, now, wk, files, dispatched, calls, inflight, deleted>>

\* GET /health, second call: get_queue_status
ApiQueueStatus ==
  \E fail \in FailChoices(1) :
    /\ Call(API, "get_queue_status", 0, None, fail,
            get_queue_status(redis, metrics, fail))
    /\ UNCHANGED <<nextId, now, wk, files, dispatched, calls, inflight, deleted>>

\* retention sweep: cleanup_old_jobs(days)
CleanupOldJobs ==
  \E days \in RetentionDays, fail \in FailChoices(1) :
    /\ Call(API, "cleanup_old_jobs", 0, Some(days), fail,
            cleanup_old_jobs(redis, metrics, days, now, fail))
    /\ UNCHANGED <<nextId, now, wk, files, dispatched, calls, inflight, deleted>>

\* ------------------------------------------------------------ worker.py
\* Worker._handle_shutdown -> Worker.stop
HandleShutdown(w) ==
  /\ wk[w].pc # "stopped"
  /\ wk[w].running
  /\ wk' = [wk EXCEPT ![w].running = FALSE]
  /\ UNCHANGED <<redis, metrics, nextId, now, faults, files, lastOp, dispatched, calls, inflight, deleted>>

\* the loop condition `while self.running`
LoopCondition_always(w) == TRUE

LoopCondition(w) == wk[w].running

\* the loop condition is false: the loop ends
WorkerExit(w) ==
  /\ wk[w].pc = "loop"
  /\ ~LoopCondition(w)
  /\ wk' = [wk EXCEPT ![w].pc = "stopped"]
  /\ UNCHANGED <<redis, metrics, nextId, now, faults, files, lastOp, dispatched, calls, inflight, deleted>>

\* one pass of the loop up to the dispatch: get_next_job, then process_job,
\* time.sleep(1) when the queue is empty, or time.sleep(5) when the call raised
WorkerPoll(w) ==
  /\ wk[w].pc = "loop"
  /\ LoopCondition(w)
  /\ \E fail \in FailChoices(2 * (Len(redis.job_queue) + 1)) :
       LET o == get_next_job(redis, metrics, fail) IN
       /\ Call(w, "get_next_job", 0, None, fail, o)
       /\ IF o.raised # "none"
            THEN /\ wk' = [wk EXCEPT ![w].pc = "backoff_sleep"]
                 /\ UNCHANGED dispatched
          ELSE IF IsSet(o.ret)
            THEN /\ wk' = [wk EXCEPT ![w] = [NewWorker EXCEPT !.pc = "start",
                                                                !.running = wk[w].running,
                                                                !.job = o.ret]]
                 /\ dispatched' = Append(dispatched, Val(o.ret).id)
          ELSE /\ wk' = [wk EXCEPT ![w].pc = "idle_sleep"]
               /\ UNCHANGED dispatched
  /\ UNCHANGED <<nextId, now, files, calls, inflight, deleted>>

\* the worker process is killed (SIGKILL, out of memory, power loss) inside
\* process_job, after mark_job_processing returned and before
\* mark_job_completed or mark_job_failed is called: no handler runs
WorkerCrash_requeues(w) ==
  /\ wk[w].pc \in {"acquire", "validate", "transform", "finalize", "except"}
  /\ wk[w].temp_dir
  /\ wk' = [wk EXCEPT ![w].pc = "crashed"]
  /\ redis' = redis_rpush(redis, Val(wk[w].job).id)
  /\ UNCHANGED <<metrics, nextId, now, faults, files, lastOp, dispatched, calls, inflight, deleted>>

WorkerCrash(w) ==
  /\ wk[w].pc \in {"acquire", "validate", "transform", "finalize", "except"}
  /\ wk[w].temp_dir
  /\ wk' = [wk EXCEPT ![w].pc = "crashed"]
  /\ UNCHANGED <<redis, metrics, nextId, now, faults, files, lastOp, dispatched, calls, inflight, deleted>>

\* time.sleep returns
WorkerWake(w) ==
  /\ wk[w].pc \in {"idle_sleep", "backoff_sleep"}
  /\ wk' = [wk EXCEPT ![w].pc = "loop"]
  /\ UNCHANGED <<redis, metrics, nextId, now, faults, files, lastOp, dispatched, calls, inflight, deleted>>

\* ------------------------------- AudioProcessingService.process_job, by stage
\* an exception reaches the except block of process_job
Raise(w, raised) == [wk[w] EXCEPT !.pc = "except", !.exc = Some(ErrorMessage(raised))]

\* update_job_progress(job.id, progress) from stage code of worker w; on return
\* the frame becomes `next`, on an exception control moves to the except block
StageProgress(w, progress, next) ==
  \E fail \in FailChoices(2) :
    LET job_id == Val(wk[w].job).id
        o == update_job_progress(redis, metrics, job_id, progress, now, fail)
    IN
    /\ Call(w, "update_job_progress", job_id, Some(progress), fail, o)
    /\ wk' = [wk EXCEPT ![w] = IF o.raised # "none"
                                 THEN [next EXCEPT !.pc = "except",
                                                   !.exc = Some(ErrorMessage(o.raised))]
                                 ELSE next]

\* mark_job_processing(job.id) and create_temp_directory
ProcStart(w) ==
  /\ wk[w].pc = "start"
  /\ \E fail \in FailChoices(3) :
       LET job_id == Val(wk[w].job).id
           o == mark_job_processing(redis, metrics, job_id, now, fail)
       IN
       /\ Call(w, "mark_job_processing", job_id, None, fail, o)
       /\ wk' = [wk EXCEPT ![w] = IF o.raised # "none"
                                    THEN Raise(w, o.raised)
                                    ELSE [wk[w] EXCEPT !.pc = "acquire", !.temp_dir = TRUE]]
  /\ UNCHANGED <<nextId, now, files, dispatched, calls, inflight, deleted>>

\* Stage 1 for an uploaded file: the input is already local, progress 10
ProcAcquireFile(w) ==
  /\ wk[w].pc = "acquire"
  /\ Val(wk[w].job).input_type = "FILE_UPLOAD"
  /\ StageProgress(w, 10, [wk[w] EXCEPT !.pc = "validate",
                                        !.audio_path = Some(UploadPath(Val(wk[w].job).input_source))])
  /\ UNCHANGED <<nextId, now, files, dispatched, calls, inflight, deleted>>

\* Stage 1 for a YouTube URL: download_audio returned, progress 30
ProcAcquireDownload(w) ==
  /\ wk[w].pc = "acquire"
  /\ Val(wk[w].job).input_type = "YOUTUBE_URL"
  /\ StageProgress(w, 30, [wk[w] EXCEPT !.pc = "validate",
                                        !.audio_path = Some(DownloadPath(Val(wk[w].job).id))])
  /\ files' = files \cup {DownloadPath(Val(wk[w].job).id)}
  /\ UNCHANGED <<nextId, now, dispatched, calls, inflight, deleted>>

\* a collaborator raised: download_audio, validate_audio_file or separate_stems
ProcStageFails(w) ==
  /\ wk[w].pc \in {"acquire", "validate", "transform"}
  /\ wk[w].pc = "acquire" => Val(wk[w].job).input_type = "YOUTUBE_URL"
  /\ wk' = [wk EXCEPT ![w] = Raise(w, CASE wk[w].pc = "acquire" -> "YouTubeDownloadError"
                                        [] wk[w].pc = "validate" -> "ValidationError"
                                        [] OTHER -> "StemSeparationError")]
  /\ UNCHANGED <<redis, metrics, nextId, now, faults, files, lastOp, dispatched, calls, inflight, deleted>>

\* Stage 2: validate_audio_file passed, progress 40
ProcValidate(w) ==
  /\ wk[w].pc = "validate"
  /\ StageProgress(w, 40, [wk[w] EXCEPT !.pc = "transform"])
  /\ UNCHANGED <<nextId, now, files, dispatched, calls, inflight, deleted>>

\* Stage 3: _run_demucs_command read a line with a percentage in `reports` and
\* called progress_callback with it
ProcReportFrom(w, reports) ==
  /\ wk[w].pc = "transform"
  /\ wk[w].reports < MaxReports
  /\ \E raw \in reports :
       StageProgress(w, progress_callback(raw),
                     [wk[w] EXCEPT !.reports = @ + 1, !.raw = Some(raw)])
  /\ UNCHANGED <<nextId, now, files, dispatched, calls, inflight, deleted>>

\* an engine that prints any integer before the percent sign
ProcReport(w) == ProcReportFrom(w, RawReports)

\* an engine that keeps its reports within 0..100
ProcReportInRange(w) == ProcReportFrom(w, RawRange)

\* Stage 3 ends: separate_stems returned the stem files, progress 95
ProcTransformDone(w) ==
  /\ wk[w].pc = "transform"
  /\ StageProgress(w, 95, [wk[w] EXCEPT !.pc = "finalize", !.raw = None])
  /\ files' = files \cup {OutputDir(Val(wk[w].job).id)}
  /\ UNCHANGED <<nextId, now, dispatched, calls, inflight, deleted>>

\* Stage 4: build the JobResult and mark_job_completed
ProcFinalize(w) ==
  /\ wk[w].pc = "finalize"
  /\ \E actual_duration \in Durations, fail \in FailChoices(3) :
       LET job_id == Val(wk[w].job).id
           result == JobResult(job_id, actual_duration, TotalSize)
           o == mark_job_completed(redis, metrics, job_id, result, actual_duration, now, fail)
       IN
       /\ Call(w, "mark_job_completed", job_id, Some(<<result, actual_duration>>), fail, o)
       /\ wk' = [wk EXCEPT ![w] = IF o.raised # "none"
                                    THEN Raise(w, o.raised)
                                    ELSE [wk[w] EXCEPT !.pc = "finally"]]
  /\ UNCHANGED <<nextId, now, files, dispatched, calls, inflight, deleted>>

\* except Exception: mark_job_failed(job.id, str(e)), then re-raise; an
\* exception of mark_job_failed itself replaces the one being handled
ProcExcept_skips_mark(w) ==
  /\ wk[w].pc = "except"
  /\ wk' = [wk EXCEPT ![w].pc = "finally"]
  /\ UNCHANGED <<redis, metrics, nextId, now, faults, files, lastOp, dispatched, calls, inflight, deleted>>

ProcExcept(w) ==
  /\ wk[w].pc = "except"
  /\ \E fail \in FailChoices(3) :
       LET job_id == Val(wk[w].job).id
           o == mark_job_failed(redis, metrics, job_id, Val(wk[w].exc), now, fail)
       IN
       /\ Call(w, "mark_job_failed", job_id, wk[w].exc, fail, o)
       /\ wk' = [wk EXCEPT ![w].pc = "finally",
                            ![w].exc = IF o.raised # "none"
                                       THEN Some(ErrorMessage(o.raised)) ELSE @]
  /\ UNCHANGED <<nextId, now, files, dispatched, calls, inflight, deleted>>

\* finally: remove the downloaded input of a YouTube job (removed: os.remove
\* succeeded); then process_job returns to Worker.start or raises into it
ProcFinally_success_only(w) ==
  /\ wk[w].pc = "finally"
  /\ \E removed \in BOOLEAN :
       LET job == Val(wk[w].job)
           attempt == /\ wk[w].exc = None
                      /\ wk[w].temp_dir
                      /\ job.input_type = "YOUTUBE_URL"
                      /\ IsSet(wk[w].audio_path)
                      /\ Val(wk[w].audio_path) \in files
       IN
       /\ ~attempt => removed
       /\ files' = IF attempt /\ removed THEN files \ {Val(wk[w].audio_path)} ELSE files
       /\ wk' = [wk EXCEPT ![w].pc = IF IsSet(wk[w].exc) THEN "caught" ELSE "processed",
                            ![w].cleanup = IF ~attempt THEN "none"
                                           ELSE IF removed THEN "removed" ELSE "failed"]
  /\ UNCHANGED <<redis, metrics, nextId, now, faults, lastOp, dispatched, calls, inflight, deleted>>

ProcFinally(w) ==
  /\ wk[w].pc = "finally"
  /\ \E removed \in BOOLEAN :
       LET job == Val(wk[w].job)
           attempt == /\ wk[w].temp_dir
                      /\ job.input_type = "YOUTUBE_URL"
                      /\ IsSet(wk[w].audio_path)
                      /\ Val(wk[w].audio_path) \in files
       IN
       /\ ~attempt => removed
       /\ files' = IF attempt /\ removed THEN files \ {Val(wk[w].audio_path)} ELSE files
       /\ wk' = [wk EXCEPT ![w].pc = IF IsSet(wk[w].exc) THEN "caught" ELSE "processed",
                            ![w].cleanup = IF ~attempt THEN "none"
                                           ELSE IF removed THEN "removed" ELSE "failed"]
  /\ UNCHANGED <<redis, metrics, nextId, now, faults, lastOp, dispatched, calls, inflight, deleted>>

\* back in Worker.start after process_job returned: the result is logged
WorkerJobProcessed(w) ==
  /\ wk[w].pc = "processed"
  /\ wk' = [wk EXCEPT ![w] = [NewWorker EXCEPT !.pc = "loop", !.running = wk[w].running]]
  /\ UNCHANGED <<redis, metrics, nextId, now, faults, files, lastOp, dispatched, calls, inflight, deleted>>

\* back in Worker.start after process_job raised: the inner `except Exception`
\* logs the error and the loop goes on
WorkerJobError_stops(w) ==
  /\ wk[w].pc = "caught"
  /\ wk' = [wk EXCEPT ![w] = [NewWorker EXCEPT !.pc = "loop", !.running = FALSE]]
  /\ UNCHANGED <<redis, metrics, nextId, now, faults, files, lastOp, dispatched, calls, inflight, deleted>>

WorkerJobError(w) ==
  /\ wk[w].pc = "caught"
  /\ wk' = [wk EXCEPT ![w] = [NewWorker EXCEPT !.pc = "loop", !.running = wk[w].running]]
  /\ UNCHANGED <<redis, metrics, nextId, now, faults, files, lastOp, dispatched, calls, inflight, deleted>>

\* ---------------------------------- direct calls of the QueueService methods
\* a caller of the service (a test, a script) invoking its public methods in any order
RepoUpdateProgress ==
  /\ calls < MaxCalls
  /\ calls' = calls + 1
  /\ \E job_id \in Ids, progress \in ProgressArgs, fail \in FailChoices(2) :
       /\ Call(API, "update_job_progress", job_id, Some(progress), fail,
               update_job_progress(redis, metrics, job_id, progress, now, fail))
       /\ UNCHANGED <<nextId, now, wk, files, dispatched, inflight, deleted>>

RepoMarkProcessing ==
  /\ calls < MaxCalls
  /\ calls' = calls + 1
  /\ \E job_id \in Ids, fail \in FailChoices(3) :
       /\ Call(API, "mark_job_processing", job_id, None, fail,
               mark_job_processing(redis, metrics, job_id, now, fail))
       /\ UNCHANGED <<nextId, now, wk, files, dispatched, inflight, deleted>>

RepoMarkCompleted ==
  /\ calls < MaxCalls
  /\ calls' = calls + 1
  /\ \E job_id \in Ids, actual_duration \in DurationArgs, fail \in FailChoices(3) :
       LET result == JobResult(job_id, actual_duration, TotalSize) IN
       /\ Call(API, "mark_job_completed", job_id, Some(<<result, actual_duration>>), fail,
               mark_job_completed(redis, metrics, job_id, result, actual_duration, now, fail))
       /\ UNCHANGED <<nextId, now, wk, files, dispatched, inflight, deleted>>

RepoMarkFailed ==
  /\ calls < MaxCalls
  /\ calls' = calls + 1
  /\ \E job_id \in Ids, error \in ErrorArgs, fail \in FailChoices(3) :
       /\ Call(API, "mark_job_failed", job_id, Some(error), fail,
               mark_job_failed(redis, metrics, job_id, error, now, fail))
       /\ UNCHANGED <<nextId, now, wk, files, dispatched, inflight, deleted>>

RepoGetNextJob ==
  /\ UNCHANGED calls
  /\ \E fail \in FailChoices(2 * (Len(redis.job_queue) + 1)) :
       LET o == get_next_job(redis, metrics, fail) IN
       /\ Call(API, "get_next_job", 0, Some(redis.job_queue), fail, o)
       /\ dispatched' = IF o.raised = "none" /\ IsSet(o.ret)
                        THEN Append(dispatched, Val(o.ret).id) ELSE dispatched
       /\ UNCHANGED <<nextId, now, wk, files, inflight, deleted>>

\* ------------------- the QueueService methods, one Redis round-trip per step
\* the Job a method holds after it has loaded the record and called the mutator
Mutated(op, job, arg, t) ==
  CASE op = "update_job_progress" -> update_progress(job, arg, t)
    [] op = "mark_job_processing" -> update_status(job, "PROCESSING", None, t)
    [] op = "mark_job_completed" -> mark_completed(job, JobResult(job.id, arg, TotalSize), arg, t)
    [] OTHER -> mark_failed(job, arg, t)

\* the arguments a caller passes besides the job id
ArgsOf(op) ==
  CASE op = "update_job_progress" -> ProgressArgs
    [] op = "mark_job_processing" -> {0}
    [] op = "mark_job_completed" -> Durations
    [] OTHER -> ErrorArgs

\* update_job_progress / mark_job_*: job = self.get_job(job_id), then the
\* mutator on the object in memory; JobNotFoundError ends the call
SvcLoad(c) ==
  /\ inflight[c].pc = "idle"
  /\ calls < MaxCalls
  /\ calls' = calls + 1
  /\ \E job_id \in Ids,
        op \in {"update_job_progress", "mark_job_processing", "mark_job_completed", "mark_job_failed"} :
       \E arg \in ArgsOf(op) :
         LET g == get_job(redis, metrics, job_id, FALSE) IN
         inflight' = [inflight EXCEPT ![c] =
                        IF g.raised # "none" THEN NoCall
                        ELSE [pc |-> "loaded", op |-> op, id |-> job_id,
                              job |-> Some(Mutated(op, Val(g.ret), arg, now))]]
  /\ UNCHANGED <<redis, metrics, nextId, now, faults, wk, files, lastOp, dispatched, deleted>>

\* self.update_job(job): _save_job writes the whole record under its key;
\* update_job_progress returns here
SvcSave(c) ==
  /\ inflight[c].pc = "loaded"
  /\ redis' = update_job(redis, metrics, Val(inflight[c].job), FALSE).redis
  /\ inflight' = [inflight EXCEPT ![c] =
                    IF inflight[c].op = "update_job_progress" THEN NoCall
                    ELSE [inflight[c] EXCEPT !.pc = "saved"]]
  /\ UNCHANGED <<metrics, nextId, now, faults, wk, files, lastOp, dispatched, calls, deleted>>

\* mark_job_*: sadd or srem on the active set, the gauges, and return
SvcMember(c) ==
  /\ inflight[c].pc = "saved"
  /\ IF inflight[c].op = "mark_job_processing"
       THEN /\ redis' = redis_sadd(redis, inflight[c].id)
            /\ metrics' = [metrics EXCEPT !.jobs_active = @ + 1, !.jobs_queued = @ - 1]
       ELSE /\ redis' = redis_srem(redis, inflight[c].id)
            /\ metrics' = [metrics EXCEPT !.jobs_active = @ - 1]
  /\ inflight' = [inflight EXCEPT ![c] = NoCall]
  /\ UNCHANGED <<nextId, now, faults, wk, files, lastOp, dispatched, calls, deleted>>

\* delete_job: self.redis.exists; JobNotFoundError ends the call
SvcDeleteExists(c) ==
  /\ inflight[c].pc = "idle"
  /\ calls < MaxCalls
  /\ calls' = calls + 1
  /\ \E job_id \in Ids :
       inflight' = [inflight EXCEPT ![c] =
                      IF ~IsSet(redis.kv[job_id]) THEN NoCall
                      ELSE [pc |-> "exists", op |-> "delete_job", id |-> job_id, job |-> None]]
  /\ UNCHANGED <<redis, metrics, nextId, now, faults, wk, files, lastOp, dispatched, deleted>>

\* delete_job: self.redis.delete(key)
SvcDeleteKey(c) ==
  /\ inflight[c].pc = "exists"
  /\ redis' = redis_delete(redis, inflight[c].id)
  /\ inflight' = [inflight EXCEPT ![c].pc = "key_deleted"]
  /\ UNCHANGED <<metrics, nextId, now, faults, wk, files, lastOp, dispatched, calls, deleted>>

\* delete_job: self.redis.lrem(queue_key, 0, job_id)
SvcDeleteLrem(c) ==
  /\ inflight[c].pc = "key_deleted"
  /\ redis' = redis_lrem(redis, inflight[c].id)
  /\ inflight' = [inflight EXCEPT ![c].pc = "queue_removed"]
  /\ UNCHANGED <<metrics, nextId, now, faults, wk, files, lastOp, dispatched, calls, deleted>>

\* delete_job: self.redis.srem(active_jobs_key, job_id), and return
SvcDeleteSrem(c) ==
  /\ inflight[c].pc = "queue_removed"
  /\ redis' = redis_srem(redis, inflight[c].id)
  /\ inflight' = [inflight EXCEPT ![c] = NoCall]
  /\ deleted' = deleted \cup {inflight[c].id}
  /\ UNCHANGED <<metrics, nextId, now, faults, wk, files, lastOp, dispatched, calls>>

\* ------------------------------------------------------------ specifications
\* process_job and the loop around it, for a worker that is not being signalled
Pipeline(w) ==
  \/ WorkerPoll(w)
  \/ WorkerWake(w)
  \/ ProcStart(w)
  \/ ProcAcquireFile(w)
  \/ ProcAcquireDownload(w)
  \/ ProcStageFails(w)
  \/ ProcValidate(w)
  \/ ProcReport(w)
  \/ ProcTransformDone(w)
  \/ ProcFinalize(w)
  \/ ProcExcept(w)
  \/ ProcFinally(w)
  \/ WorkerJobProcessed(w)
  \/ WorkerJobError(w)

\* producers creating and deleting jobs through the API while one worker
\* consumes the queue, over a store whose round-trips can fail
Next ==
  \/ ApiCreateJob
  \/ ApiDeleteJob
  \/ Pipeline("w1")

Spec == Init /\ [][Next]_vars

\* the same producers with the whole worker pool, over a store that does not fail
InitPool ==
  /\ redis = EmptyRedis
  /\ metrics = ZeroMetrics
  /\ nextId = 0
  /\ now = 0
  /\ faults = MaxFaults
  /\ wk = [w \in Workers |-> NewWorker]
  /\ files = {}
  /\ lastOp = NoOp
  /\ dispatched = <<>>
  /\ calls = 0
  /\ inflight = [c \in Callers |-> NoCall]
  /\ deleted = {}

NextPool ==
  \/ ApiCreateJob
  \/ ApiDeleteJob
  \/ \E w \in Workers : Pipeline(w)

SpecPool == InitPool /\ [][NextPool]_vars

\* the QueueService under a single caller that invokes its methods in any order,
\* over a store that does not fail
InitRepo == InitPool

NextRepo ==
  \/ ApiCreateJob
  \/ ApiGetJob
  \/ ApiDeleteJob
  \/ ApiHealthCheck
  \/ ApiQueueStatus
  \/ RepoUpdateProgress
  \/ RepoMarkProcessing
  \/ RepoMarkCompleted
  \/ RepoMarkFailed
  \/ RepoGetNextJob

SpecRepo == InitRepo /\ [][NextRepo]_vars

\* a single caller that creates, deletes, dequeues, sweeps and inspects while
\* the clock advances; the store fails only by cutting a delete_job short
InitStore == InitPool

NextStore ==
  \/ ApiCreateJob
  \/ ApiDeleteJob
  \/ ApiDeleteJobCut
  \/ ApiGetJob
  \/ ApiQueueStatus
  \/ CleanupOldJobs
  \/ RepoMarkProcessing
  \/ RepoGetNextJob
  \/ Tick

SpecStore == InitStore /\ [][NextStore]_vars

\* one worker running jobs whose stages all succeed and whose engine reports
\* every percentage from 0 to 100, over a store that does not fail
PipelineInRange(w) ==
  \/ WorkerPoll(w)
  \/ WorkerWake(w)
  \/ ProcStart(w)
  \/ ProcAcquireFile(w)
  \/ ProcAcquireDownload(w)
  \/ ProcValidate(w)
  \/ ProcReportInRange(w)
  \/ ProcTransformDone(w)
  \/ ProcFinalize(w)
  \/ ProcFinally(w)
  \/ WorkerJobProcessed(w)

InitTransform == InitPool

NextTransform ==
  \/ ApiCreateJob
  \/ PipelineInRange("w1")

SpecTransform == InitTransform /\ [][NextTransform]_vars

\* the API process alone, over a store whose round-trips can fail
InitApi == Init

NextApi ==
  \/ ApiCreateJob
  \/ ApiGetJob
  \/ ApiDeleteJob
  \/ ApiHealthCheck
  \/ ApiQueueStatus

SpecApi == InitApi /\ [][NextApi]_vars

\* one worker over a reliable store that may be sent SIGTERM or SIGINT at any
\* point; the worker is a running process: a step it can take is taken
InitShutdown == InitPool

NextShutdown ==
  \/ ApiCreateJob
  \/ Pipeline("w1")
  \/ HandleShutdown("w1")
  \/ WorkerExit("w1")

SpecShutdown ==
  InitShutdown /\ [][NextShutdown]_vars /\ WF_vars(Pipeline("w1") \/ WorkerExit("w1"))

\* a pool of two workers, the first of which may be killed in the middle of a
\* job, with a producer that creates and deletes, over a store that does not fail
InitCrash == InitPool

NextCrash ==
  \/ ApiCreateJob
  \/ ApiDeleteJob
  \/ \E w \in Workers : Pipeline(w)
  \/ WorkerCrash("w1")

SpecCrash == InitCrash /\ [][NextCrash]_vars

\* one worker and a producer that only creates, over a store whose round-trips
\* can fail; the worker is a running process: a step it can take is taken
InitLive == Init

NextLive ==
  \/ ApiCreateJob
  \/ Pipeline("w1")

SpecLive == InitLive /\ [][NextLive]_vars /\ WF_vars(Pipeline("w1"))

\* two callers inside the QueueService at the same time, their Redis
\* round-trips interleaved in any order, over a store that does not fail
InitRace == InitPool

NextRace ==
  \/ ApiCreateJob
  \/ \E c \in Callers :
       \/ SvcLoad(c)
       \/ SvcSave(c)
       \/ SvcMember(c)
       \/ SvcDeleteExists(c)
       \/ SvcDeleteKey(c)
       \/ SvcDeleteLrem(c)
       \/ SvcDeleteSrem(c)

SpecRace == InitRace /\ [][NextRace]_vars

\* ------------------------------------------------------------------ claims
HasRecord(id) == IsSet(redis.kv[id])
\* the stored document of a job
Doc(id) == Val(redis.kv[id])
Terminal(status) == status \in {"completed", "failed"}

LegalTransitions ==
  {<<"pending", "processing">>, <<"processing", "completed">>,
   <<"processing", "failed">>, <<"pending", "failed">>}

\* C1: the stored status of a job changes only along PENDING->PROCESSING,
\* PROCESSING->COMPLETED, PROCESSING->FAILED or PENDING->FAILED; a call that
\* would make any other transition leaves the stored status as it was.
C1_OnlyLegalTransitions ==
  [][\A id \in Ids :
       (/\ IsSet(redis.kv[id])
        /\ IsSet(redis'.kv[id])
        /\ Val(redis'.kv[id]).status # Val(redis.kv[id]).status)
       => <<Val(redis.kv[id]).status, Val(redis'.kv[id]).status>> \in LegalTransitions]_vars

\* C2: once the stored status is COMPLETED or FAILED, no step other than a
\* deletion changes any field of the stored record.
C2_TerminalRecordImmutable ==
  [][\A id \in Ids :
       (IsSet(redis.kv[id]) /\ Terminal(Val(redis.kv[id]).status))
       => (redis'.kv[id] = redis.kv[id] \/ ~IsSet(redis'.kv[id]))]_vars

Clamp(p) == IF p < 0 THEN 0 ELSE IF p > 100 THEN 100 ELSE p

\* C3: every stored progress is an integer in [0,100], and after a successful
\* update_job_progress(id, p) the stored progress is p clamped to [0,100]
\* (0 for p < 0, 100 for p > 100).
C3_ProgressClamped ==
  /\ \A id \in Ids : HasRecord(id) => Doc(id).progress \in 0..100
  /\ (lastOp.op = "update_job_progress" /\ lastOp.raised = "none")
       => Doc(lastOp.id).progress = Clamp(Val(lastOp.arg))

\* an update_job_progress with an argument above 100 has returned and 100 is stored
C3_Witness ==
  /\ lastOp.op = "update_job_progress"
  /\ lastOp.raised = "none"
  /\ Val(lastOp.arg) > 100
  /\ Doc(lastOp.id).progress = 100

\* C4: a stored job has a result and an actual_duration if and only if its
\* status is COMPLETED.
C4_ResultIffCompleted ==
  \A id \in Ids :
    HasRecord(id) =>
      /\ IsSet(Doc(id).result) <=> Doc(id).status = "completed"
      /\ IsSet(Doc(id).actual_duration) <=> Doc(id).status = "completed"

\* C5: a stored job has an error string if and only if its status is FAILED.
C5_ErrorIffFailed ==
  \A id \in Ids : HasRecord(id) => (IsSet(Doc(id).error) <=> Doc(id).status = "failed")

\* a job that failed in the middle of the pipeline is stored with its error
C5_Witness ==
  \E id \in Ids :
    /\ HasRecord(id)
    /\ Doc(id).status = "failed"
    /\ IsSet(Doc(id).error)
    /\ Doc(id).progress > 0

\* C6: while a job is PENDING or PROCESSING its stored progress never decreases
\* from one stored value to the next.
C6_ProgressMonotone ==
  [][\A id \in Ids :
       (/\ IsSet(redis.kv[id])
        /\ IsSet(redis'.kv[id])
        /\ ~Terminal(Val(redis.kv[id]).status))
       => Val(redis'.kv[id]).progress >= Val(redis.kv[id]).progress]_vars

\* C7: every job id is returned by at most one get_next_job call, so no id is
\* handed to process_job twice and no two workers hold the same job.
C7_AtMostOneDispatch ==
  /\ \A i, j \in DOMAIN dispatched : i # j => dispatched[i] # dispatched[j]
  /\ \A w1, w2 \in Workers :
       (w1 # w2 /\ IsSet(wk[w1].job) /\ IsSet(wk[w2].job))
       => Val(wk[w1].job).id # Val(wk[w2].job).id

\* two jobs have been dispatched and both workers are inside process_job
C7_Witness ==
  /\ Len(dispatched) = 2
  /\ \A w \in Workers : IsSet(wk[w].job)

Occurrences(q, id) == Cardinality({i \in DOMAIN q : q[i] = id})

\* C8: when create_job has returned a job, a PENDING record with the returned
\* id (progress 0, no result, no error) is stored and the id is the last
\* element of the FIFO, in which it occurs exactly once.
C8_CreateEffectsObservable ==
  (lastOp.op = "create_job" /\ lastOp.raised = "none") =>
    /\ IsSet(lastOp.ret)
    /\ Val(lastOp.ret).id = lastOp.id
    /\ HasRecord(lastOp.id)
    /\ Doc(lastOp.id).id = lastOp.id
    /\ Doc(lastOp.id).status = "pending"
    /\ Doc(lastOp.id).progress = 0
    /\ Doc(lastOp.id).result = None
    /\ Doc(lastOp.id).error = None
    /\ redis.job_queue # <<>>
    /\ redis.job_queue[Len(redis.job_queue)] = lastOp.id
    /\ Occurrences(redis.job_queue, lastOp.id) = 1

\* create_job has returned while an earlier job is still queued ahead of the new one
C8_Witness ==
  /\ lastOp.op = "create_job"
  /\ lastOp.raised = "none"
  /\ Len(redis.job_queue) = 2

\* C9: when create_job has raised JobQueueError, no record of the new id is
\* visible through get_job or counted by get_queue_status and the id is not
\* in the FIFO.
C9_FailedCreateLeavesNoTrace ==
  (lastOp.op = "create_job" /\ lastOp.raised = "JobQueueError") =>
    /\ get_job(redis, metrics, lastOp.id, FALSE).raised = "JobNotFoundError"
    /\ lastOp.id \notin redis_scan(redis)
    /\ Occurrences(redis.job_queue, lastOp.id) = 0

SameExceptTimestamps(a, b) ==
  [a EXCEPT !.created_at = 0, !.updated_at = 0] = [b EXCEPT !.created_at = 0, !.updated_at = 0]

\* C10: a get_job on the id create_job has just returned, with no call in
\* between, returns a record equal to the created one in every field other
\* than the timestamps: PENDING, progress 0, no result, no error.
C10_CreateThenGet ==
  [][(/\ lastOp.op = "create_job"
      /\ lastOp.raised = "none"
      /\ lastOp'.op = "get_job"
      /\ lastOp'.id = lastOp.id
      /\ lastOp'.justCreated = lastOp.id)
     => /\ lastOp'.raised = "none"
        /\ SameExceptTimestamps(Val(lastOp'.ret), Val(lastOp.ret))
        /\ Val(lastOp'.ret).status = "PENDING"
        /\ Val(lastOp'.ret).progress = 0
        /\ Val(lastOp'.ret).result = None
        /\ Val(lastOp'.ret).error = None]_vars

\* get_job has returned the record of the job the call before it created
C10_Witness ==
  /\ lastOp.op = "get_job"
  /\ lastOp.raised = "none"
  /\ lastOp.justCreated = lastOp.id

\* C11: when delete_job(id) has returned on an existing job, the id has no
\* record, is at no position of the FIFO and is not in the active set, a get_job
\* on it raises JobNotFoundError, and the records, FIFO entries and active-set
\* entries of all other ids are as they were.
C11_DeleteRemovesEverywhere ==
  [][(lastOp'.op = "delete_job" /\ lastOp'.raised = "none") =>
       LET id == lastOp'.id IN
       /\ HasRecord(id)
       /\ ~IsSet(redis'.kv[id])
       /\ \A k \in 1..Len(redis'.job_queue) : redis'.job_queue[k] # id
       /\ id \notin redis'.active_jobs
       /\ get_job(redis', metrics', id, FALSE).raised = "JobNotFoundError"
       /\ \A other \in Ids \ {id} : redis'.kv[other] = redis.kv[other]
       /\ redis'.job_queue = SelectSeq(redis.job_queue, LAMBDA x : x # id)
       /\ redis'.active_jobs = redis.active_jobs \ {id}]_vars

\* a delete_job returned while another job was stored, queued or active
C11_Witness ==
  /\ lastOp.op = "delete_job"
  /\ lastOp.raised = "none"
  /\ ~HasRecord(lastOp.id)
  /\ \E other \in Ids \ {lastOp.id} :
       /\ HasRecord(other)
       /\ other \in redis.active_jobs \/ Occurrences(redis.job_queue, other) = 1

\* C12: get_job(id) and delete_job(id) on an id without a stored record raise
\* JobNotFoundError and leave the record store, the FIFO and the active set
\* as they were.
C12_MissingIdRaisesAndKeepsStore ==
  [][(lastOp'.op \in {"get_job", "delete_job"} /\ ~HasRecord(lastOp'.id)) =>
       /\ lastOp'.raised = "JobNotFoundError"
       /\ redis' = redis]_vars

\* a delete_job on an id without a record raised while the store held another job
C12_Witness ==
  /\ lastOp.op = "delete_job"
  /\ lastOp.raised = "JobNotFoundError"
  /\ ~HasRecord(lastOp.id)
  /\ redis.job_queue # <<>>

\* the step is a call of op by the producer side (a clock step keeps lastOp)
CallOf(op) == lastOp'.op = op /\ now' = now

\* the ids of a FIFO that have a stored record
LiveIn(q) == {k \in 1..Len(q) : IsSet(redis.kv[q[k]])}

\* C13: a get_next_job call that returns a job returns the first id of the FIFO
\* that still has a record, every id ahead of it and the id itself are removed
\* from the FIFO, and a call that returns while the FIFO holds such an id
\* returns a job: an id whose record was deleted is never returned.
C13_SkipsDeletedIds ==
  [][(CallOf("get_next_job") /\ lastOp'.raised = "none") =>
       LET q == redis.job_queue IN
       IF LiveIn(q) = {} THEN ~IsSet(lastOp'.ret)
       ELSE LET k == CHOOSE i \in LiveIn(q) : \A j \in LiveIn(q) : i <= j IN
            /\ IsSet(lastOp'.ret)
            /\ Val(lastOp'.ret).id = q[k]
            /\ Val(lastOp'.ret) = ParseJob(Val(redis.kv[q[k]]))
            /\ redis'.job_queue = SubSeq(q, k + 1, Len(q))
            /\ redis'.kv = redis.kv]_vars

\* a get_next_job call popped an id without a record and returned the job behind it
C13_Witness ==
  /\ lastOp.op = "get_next_job"
  /\ lastOp.raised = "none"
  /\ IsSet(lastOp.ret)
  /\ Len(Val(lastOp.arg)) >= Len(redis.job_queue) + 2
  /\ ~HasRecord(Head(Val(lastOp.arg)))

\* C14: get_next_job on an empty FIFO, or on a FIFO holding only ids without
\* a record, returns None without raising, leaves the FIFO empty and leaves
\* the record store and the active set as they were.
C14_DrainReturnsNone ==
  [][(CallOf("get_next_job") /\ LiveIn(redis.job_queue) = {}) =>
       /\ lastOp'.raised = "none"
       /\ ~IsSet(lastOp'.ret)
       /\ redis'.job_queue = <<>>
       /\ redis'.kv = redis.kv
       /\ redis'.active_jobs = redis.active_jobs]_vars

C16_MarkProcessingRequiresPending ==
  [][(lastOp'.op = "mark_job_processing" /\ HasRecord(lastOp'.id)) =>
       LET id == lastOp'.id IN
       IF Doc(id).status = "pending"
         THEN /\ Val(redis'.kv[id]).status = "processing"
              /\ id \in redis'.active_jobs
         ELSE /\ redis'.kv[id] = redis.kv[id]
              /\ redis'.active_jobs = redis.active_jobs]_vars

\* C17: mark_job_completed(id, result, d) on a job that was created and marked
\* processing leaves the record COMPLETED with progress 100, actual_duration d,
\* the given result and no error, and the id out of the active set.
C17_CompletedRecord ==
  [][(/\ lastOp'.op = "mark_job_completed"
      /\ lastOp'.raised = "none"
      /\ HasRecord(lastOp'.id)
      /\ Doc(lastOp'.id).status = "processing"
      /\ Doc(lastOp'.id).error = None
      /\ lastOp'.id \in redis.active_jobs) =>
       LET id == lastOp'.id
           after == get_job(redis', metrics', id, FALSE)
           result == Val(lastOp'.arg)[1]
           d == Val(lastOp'.arg)[2]
       IN
       /\ after.raised = "none"
       /\ Val(after.ret).status = "COMPLETED"
       /\ Val(after.ret).progress = 100
       /\ Val(after.ret).actual_duration = Some(d)
       /\ Val(after.ret).result = Some(result)
       /\ Val(after.ret).error = None
       /\ id \notin redis'.active_jobs]_vars

\* a job went create, update_job_progress, mark_job_processing,
\* mark_job_completed(result, 0)
C17_Witness ==
  /\ lastOp.op = "mark_job_completed"
  /\ lastOp.raised = "none"
  /\ nextId = 1
  /\ calls = 3
  /\ metrics = [jobs_queued |-> 0, jobs_active |-> 0]
  /\ HasRecord(lastOp.id)
  /\ Doc(lastOp.id).status = "completed"
  /\ Doc(lastOp.id).actual_duration = Some(0)
  /\ Doc(lastOp.id).error = None

\* C18: mark_job_failed(id, e) on a PENDING or PROCESSING job stores FAILED and
\* the error e, keeps every other field but updated_at, and leaves the id out
\* of the active set.
C18_FailedKeepsTheRest ==
  [][(/\ lastOp'.op = "mark_job_failed"
      /\ lastOp'.raised = "none"
      /\ HasRecord(lastOp'.id)
      /\ Doc(lastOp'.id).status \in {"pending", "processing"}) =>
       LET id == lastOp'.id
           before == Doc(id)
           after == Val(redis'.kv[id])
       IN
       /\ after = [before EXCEPT !.status = "failed",
                                  !.error = lastOp'.arg,
                                  !.updated_at = after.updated_at]
       /\ id \notin redis'.active_jobs]_vars

\* a job at progress 50 was failed with "disk full"
C18_Witness ==
  /\ lastOp.op = "mark_job_failed"
  /\ lastOp.raised = "none"
  /\ HasRecord(lastOp.id)
  /\ Doc(lastOp.id).status = "failed"
  /\ Doc(lastOp.id).error = Some("disk full")
  /\ Doc(lastOp.id).progress = 50
  /\ Doc(lastOp.id).result = None
  /\ lastOp.id \notin redis.active_jobs

\* C19: get_queue_status returns the number of FIFO entries, the cardinality
\* of the active set and the number of stored records, and changes nothing.
C19_StatusCountsMatchStore ==
  [][CallOf("get_queue_status") =>
       /\ lastOp'.raised = "none"
       /\ lastOp'.ret = Some([queued_jobs |-> Len(redis.job_queue),
                              active_jobs |-> Cardinality(redis.active_jobs),
                              total_jobs |-> Cardinality({i \in Ids : HasRecord(i)})])
       /\ redis' = redis]_vars

\* the status was taken with one job queued, one active and two stored
C19_Witness ==
  /\ lastOp.op = "get_queue_status"
  /\ lastOp.raised = "none"
  /\ Val(lastOp.ret) = [queued_jobs |-> 1, active_jobs |-> 1, total_jobs |-> 2]
  /\ Len(redis.job_queue) = 1
  /\ Cardinality(redis.active_jobs) = 1

\* the stored records created before now - days
OlderThan(days) == {i \in Ids : HasRecord(i) /\ FromIso(Doc(i).created_at) < now - days}

JobOf(w) == Val(wk[w].job).id

\* C21: when process_job has exited with an exception and the job was not
\* deleted, the stored record is FAILED and carries an error message.
C21_FailedExitLeavesFailed ==
  \A w \in Workers :
    (wk[w].pc = "caught" /\ HasRecord(JobOf(w))) =>
      /\ Doc(JobOf(w)).status = "failed"
      /\ IsSet(Doc(JobOf(w)).error)

\* str(e) of the failures of the downloader, the validation and the engine
JobDomainMessages ==
  {ErrorMessage("YouTubeDownloadError"), ErrorMessage("ValidationError"),
   ErrorMessage("StemSeparationError")}

\* C22: an exception that escapes process_job into the Worker loop comes from
\* a repository/store operation, never from the downloader, the validation or
\* the transformation engine.
C22_OnlyStoreFailuresEscape ==
  \A w \in Workers :
    wk[w].pc = "caught" => Val(wk[w].exc) \notin JobDomainMessages

\* C23: for an engine report raw in 0..100 the progress callback stores
\* 40 + floor(raw / 2), a value in [40,90].
C23_CallbackMapping ==
  \A w \in Workers :
    (/\ wk[w].pc = "transform"
     /\ IsSet(wk[w].raw)
     /\ Val(wk[w].raw) \in RawRange
     /\ HasRecord(JobOf(w))) =>
      /\ Doc(JobOf(w)).progress = 40 + (Val(wk[w].raw) \div 2)
      /\ Doc(JobOf(w)).progress >= 40
      /\ Doc(JobOf(w)).progress <= 90

\* the engine reported 61 and the job stands at 70
C23_Witness ==
  \E w \in Workers :
    /\ wk[w].pc = "transform"
    /\ wk[w].raw = Some(61)
    /\ HasRecord(JobOf(w))
    /\ Doc(JobOf(w)).progress = 70

\* C24: health_check does not raise, returns True exactly when the ping went
\* through and False when it failed, and leaves the store as it was.
C24_HealthCheckNeverRaises ==
  [][lastOp'.op = "health_check" =>
       /\ lastOp'.raised = "none"
       /\ lastOp'.ret = Some(faults' = faults)
       /\ redis' = redis]_vars

\* the ping failed over a store that holds a job, and health_check returned False
C24_Witness ==
  /\ lastOp.op = "health_check"
  /\ lastOp.raised = "none"
  /\ lastOp.ret = Some(FALSE)
  /\ faults = 1
  /\ \E i \in Ids : HasRecord(i)

\* C25: a run that has not failed stores 10 (FILE) or 30 (REMOTE_URL) after
\* acquiring the input, 40 after validation, values in [40,90] during the
\* transform stage and 90 when it ends; 100 comes with COMPLETED, so a
\* PROCESSING record never shows more than 90.
C25_StageSchedule ==
  /\ \A w \in Workers :
       (/\ IsSet(wk[w].job)
        /\ wk[w].exc = None
        /\ HasRecord(JobOf(w))
        /\ Doc(JobOf(w)).status = "processing") =>
         /\ wk[w].pc = "validate" =>
              Doc(JobOf(w)).progress = IF Val(wk[w].job).input_type = "FILE_UPLOAD" THEN 10 ELSE 30
         /\ wk[w].pc = "transform" =>
              Doc(JobOf(w)).progress >= 40 /\ Doc(JobOf(w)).progress <= 90
         /\ wk[w].pc = "finalize" => Doc(JobOf(w)).progress = 90
  /\ \A i \in Ids :
       HasRecord(i) =>
         /\ Doc(i).status = "processing" => Doc(i).progress <= 90
         /\ Doc(i).status = "completed" => Doc(i).progress = 100

C27_CleanupOnEveryExit ==
  [][/\ \A w \in Workers :
          /\ (wk'[w].pc \in {"caught", "processed"} /\ wk[w].pc # wk'[w].pc) =>
                wk[w].pc = "finally"
          /\ (wk'[w].pc = "loop" /\ wk[w].pc \notin {"loop", "idle_sleep", "backoff_sleep"}) =>
                wk[w].pc \in {"caught", "processed"}
          /\ (wk[w].pc = "finally" /\ wk'[w] # wk[w]) =>
                /\ redis' = redis
                /\ wk'[w].exc = wk[w].exc
                /\ wk'[w].pc = IF IsSet(wk[w].exc) THEN "caught" ELSE "processed"
                /\ (Val(wk[w].job).input_type = "YOUTUBE_URL" /\ IsSet(wk[w].audio_path)) =>
                     /\ wk'[w].cleanup \in {"removed", "failed"}
                     /\ wk'[w].cleanup = "removed" => Val(wk[w].audio_path) \notin files'
                /\ Val(wk[w].job).input_type = "FILE_UPLOAD" =>
                     /\ wk'[w].cleanup = "none"
                     /\ files' = files
     /\ \A f \in files \ files' : f[1] = "download"
    ]_vars

\* a YOUTUBE_URL job failed after its download, the removal of the downloaded
\* file failed too, and the job is FAILED all the same
C27_Witness ==
  \E w \in Workers :
    /\ wk[w].pc = "caught"
    /\ wk[w].cleanup = "failed"
    /\ Val(wk[w].job).input_type = "YOUTUBE_URL"
    /\ wk[w].audio_path = Some(DownloadPath(JobOf(w)))
    /\ DownloadPath(JobOf(w)) \in files
    /\ HasRecord(JobOf(w))
    /\ Doc(JobOf(w)).status = "failed"

\* C28: the step a worker takes after process_job raised into Worker.start
\* puts it back at the head of its loop with the running flag as it was and
\* set, touching nothing else, so that its next step is a get_next_job poll.
C28_EscapeDoesNotStopWorker ==
  [][\A w \in Workers :
       (wk[w].pc = "caught" /\ wk'[w] # wk[w]) =>
         /\ wk'[w].pc \in {"loop", "backoff_sleep"}
         /\ wk'[w].running = wk[w].running
         /\ wk'[w].running
         /\ UNCHANGED <<redis, files, dispatched>>
    ]_vars

\* the first job dequeued by w1 is FAILED and w1 has dequeued the job
\* enqueued behind it
C28_Witness ==
  /\ Len(dispatched) = 2
  /\ dispatched[1] # dispatched[2]
  /\ HasRecord(dispatched[1])
  /\ Doc(dispatched[1]).status = "failed"
  /\ IsSet(wk["w1"].job)
  /\ JobOf("w1") = dispatched[2]
  /\ wk["w1"].running

\* C29: after process_job raised into Worker.start the worker is in the
\* 5 s backoff sleep before it polls again.
C29_EscapeBacksOff ==
  [][\A w \in Workers :
       (wk[w].pc = "caught" /\ wk'[w] # wk[w]) => wk'[w].pc = "backoff_sleep"
    ]_vars

IdentityFields(d) ==
  <<d.id, d.input_type, d.input_source, d.model, d.options, d.created_at, d.estimated_duration>>

StateChangingOps ==
  {"update_job_progress", "mark_job_processing", "mark_job_completed", "mark_job_failed"}

\* C34: a call of update_job_progress, mark_job_processing, mark_job_completed
\* or mark_job_failed leaves the record of every other id as it was, removes
\* no record, and leaves id, input_type, input_source, model, options,
\* created_at and estimated_duration of the record it names as they were.
C34_IdentityFieldsKept ==
  [][(lastOp'.op \in StateChangingOps /\ now' = now) =>
       \A i \in Ids :
         /\ i # lastOp'.id => redis'.kv[i] = redis.kv[i]
         /\ HasRecord(i) =>
              /\ IsSet(redis'.kv[i])
              /\ IdentityFields(Val(redis'.kv[i])) = IdentityFields(Doc(i))
         /\ ~HasRecord(i) => ~IsSet(redis'.kv[i])
    ]_vars

\* mark_job_completed has returned for the job of an upload while the record
\* of another job is stored: the completed record still carries what
\* create_job gave it
C34_Witness ==
  /\ lastOp.op = "mark_job_completed"
  /\ lastOp.raised = "none"
  /\ HasRecord(lastOp.id)
  /\ Doc(lastOp.id).status = "completed"
  /\ Doc(lastOp.id).id = lastOp.id
  /\ Doc(lastOp.id).estimated_duration = EstimatedDuration
  /\ Doc(lastOp.id).input_source = InputSource(Doc(lastOp.id).input_type)
  /\ \E i \in Ids \ {lastOp.id} : HasRecord(i)

\* C35: every id in the active set has a stored record whose status is
\* PROCESSING, and no stored record with status COMPLETED or FAILED has its
\* id in the active set.
C35_ActiveSetIsProcessing ==
  /\ \A i \in redis.active_jobs : HasRecord(i) /\ Doc(i).status = "processing"
  /\ \A i \in Ids : (HasRecord(i) /\ Terminal(Doc(i).status)) => i \notin redis.active_jobs

\* C36: every id in the FIFO has a stored record whose status is PENDING, and
\* a job returned by get_next_job is PENDING.
C36_QueuedIsPending ==
  /\ \A k \in DOMAIN redis.job_queue :
       HasRecord(redis.job_queue[k]) /\ Doc(redis.job_queue[k]).status = "pending"
  /\ (lastOp.op = "get_next_job" /\ lastOp.raised = "none" /\ IsSet(lastOp.ret)) =>
       Val(lastOp.ret).status = "PENDING"

\* C38: the jobs_active gauge equals the cardinality of the active set and
\* is never negative, and the jobs_queued gauge equals the length of the FIFO.
C38_GaugesTrackStore ==
  /\ metrics.jobs_active = Cardinality(redis.active_jobs)
  /\ metrics.jobs_active >= 0
  /\ metrics.jobs_queued = Len(redis.job_queue)

\* C31: the job a killed worker was processing is not in the FIFO, was
\* returned by get_next_job once only, is held by no other worker, and for as
\* long as its record is stored the record is PROCESSING and the id is in the
\* active set.
C31_CrashedJobStaysProcessing ==
  \A w \in Workers :
    wk[w].pc = "crashed" =>
      /\ HasRecord(JobOf(w)) =>
           /\ Doc(JobOf(w)).status = "processing"
           /\ JobOf(w) \in redis.active_jobs
      /\ Occurrences(redis.job_queue, JobOf(w)) = 0
      /\ Occurrences(dispatched, JobOf(w)) = 1
      /\ \A o \in Workers \ {w} : IsSet(wk[o].job) => JobOf(o) # JobOf(w)

\* w1 was killed during a job; the other worker has since completed the next
\* job and gone back to polling, and the first job is still PROCESSING
C31_Witness ==
  /\ wk["w1"].pc = "crashed"
  /\ HasRecord(JobOf("w1"))
  /\ Doc(JobOf("w1")).status = "processing"
  /\ JobOf("w1") \in redis.active_jobs
  /\ wk["w2"].pc = "idle_sleep"
  /\ Len(dispatched) = 2
  /\ HasRecord(dispatched[2])
  /\ Doc(dispatched[2]).status = "completed"

\* C37: every job that create_job stored and enqueued eventually has status
\* COMPLETED or FAILED.
C37_EveryJobTerminates ==
  \A i \in Ids :
    (HasRecord(i) /\ Occurrences(redis.job_queue, i) > 0)
      ~> (HasRecord(i) /\ Terminal(Doc(i).status))

\* C32: the step in which a caller writes the record stores exactly the Job
\* that caller holds in memory (the record it loaded, with its own change),
\* whatever another caller stored for the same id since that load.
C32_LastWriterWins ==
  [][\A c \in Callers :
       (inflight[c].pc = "loaded" /\ inflight'[c] # inflight[c]) =>
         redis'.kv[inflight[c].id] = Some(model_dump_json(Val(inflight[c].job)))
    ]_vars

\* one job and two calls, both returned: a mark_job_failed or
\* mark_job_completed (the jobs_active gauge shows that it ran to its end)
\* and an update_job_progress(50) that loaded the record before the terminal
\* record was written and wrote after it. The stored record is PENDING at
\* progress 50 with no error and no result: the terminal record is lost
C32_Witness ==
  /\ nextId = 1
  /\ calls = 2
  /\ \A c \in Callers : inflight[c].pc = "idle"
  /\ metrics.jobs_queued = 1
  /\ metrics.jobs_active = -1
  /\ HasRecord(1)
  /\ Doc(1).status = "pending"
  /\ Doc(1).progress = 50
  /\ Doc(1).error = None
  /\ Doc(1).result = None

\* C33: an id for which delete_job has returned has no stored record and is
\* not in the active set.
C33_DeletedStaysDeleted ==
  \A i \in deleted : ~HasRecord(i) /\ i \notin redis.active_jobs
====
